---- MODULE Spec2Model ----
(***************************************************************************)
(* Model of the MySQL adapter of toutago-datamapper-mysql (adapter.go).    *)
(*                                                                         *)
(* The adapter is a struct holding a pooled database handle (a.db) and the *)
(* connection settings.  Each public method (Connect, Close, Fetch,        *)
(* Insert, Update, Delete, Execute) is one action; the record `last`       *)
(* holds the inputs and the outcome of the most recent call so that the    *)
(* contract of a call can be stated as a state predicate.                  *)
(*                                                                         *)
(* Text (SQL templates, parameter names) is a sequence of characters; a    *)
(* character is a TLA+ string.  Go's map iteration order is unspecified,   *)
(* so every iteration over a map is a choice among the permutations of its *)
(* keys.                                                                   *)
(***************************************************************************)
EXTENDS Integers, Sequences, FiniteSets, TLC

VARIABLES db, dsn, maxConn, maxIdle, connMaxAge, pools, table, nextId, last

adapterVars == <<db, dsn, maxConn, maxIdle, connMaxAge>>
vars == <<db, dsn, maxConn, maxIdle, connMaxAge, pools, table, nextId, last>>

(***************************************************************************)
(* Bounds of the model.                                                    *)
(***************************************************************************)
MaxPools == 2
MaxRows == 2
MaxObjects == 2
MaxTemplateLen == 6

(***************************************************************************)
(* Text helpers: strings.Contains, strings.Replace(s, old, new, 1).        *)
(***************************************************************************)
Occurrences(s, sub) ==
    {i \in 1..(Len(s) - Len(sub) + 1) : SubSeq(s, i, i + Len(sub) - 1) = sub}

Contains(s, sub) == Occurrences(s, sub) # {}

Index(s, sub) == CHOOSE i \in Occurrences(s, sub) : \A j \in Occurrences(s, sub) : i <= j

ReplaceFirst(s, old, new) ==
    IF Contains(s, old)
    THEN SubSeq(s, 1, Index(s, old) - 1) \o new
         \o SubSeq(s, Index(s, old) + Len(old), Len(s))
    ELSE s

Marker == <<"?">>

Placeholder(key) == <<"{">> \o key \o <<"}">>

(***************************************************************************)
(* buildQuery: one pass over the parameter map, in the order `order` the   *)
(* runtime happens to iterate it.  Each key whose placeholder occurs in    *)
(* the text rewritten so far has its first occurrence replaced by the      *)
(* marker and its value appended to the arguments.                         *)
(***************************************************************************)
RECURSIVE buildLoop(_, _, _, _)
buildLoop(result, args, params, order) ==
    IF order = <<>> THEN [query |-> result, args |-> args]
    ELSE LET key == Head(order)
             placeholder == Placeholder(key)
         IN  IF Contains(result, placeholder)
             THEN buildLoop(ReplaceFirst(result, placeholder, Marker),
                            Append(args, params[key]), params, Tail(order))
             ELSE buildLoop(result, args, params, Tail(order))

buildQuery(query, params, order) == buildLoop(query, <<>>, params, order)

(***************************************************************************)
(* The orders in which a map with key set S can be iterated.               *)
(***************************************************************************)
Orders(S) ==
    {o \in [1..Cardinality(S) -> S] : \A i, j \in 1..Cardinality(S) : o[i] = o[j] => i = j}

(***************************************************************************)
(* Values.  Nil is Go's nil error, NoHandle the nil *sql.DB.                *)
(***************************************************************************)
Nil == <<>>
NoHandle == 0

(* Errors are the message the code formats, followed by what it names. *)
ErrNotConnected == <<"mysql: adapter not connected">>
ErrOpen == <<"mysql: failed to open connection">>
ErrPing == <<"mysql: failed to ping database">>
ErrPrepare == <<"mysql: failed to prepare query">>
ErrQuery == <<"mysql: query failed">>
ErrNotFound == <<"adapter.ErrNotFound">>
ErrNotMap == <<"mysql: object must be map[string]interface{}">>
ErrInsert == <<"mysql: insert failed">>
ErrBulkInsert == <<"mysql: bulk insert failed">>
ErrUpdate == <<"mysql: update failed">>
ErrDelete == <<"mysql: delete failed">>
ErrExecute == <<"mysql: execute failed">>
ErrMissingIdentifier(field) == <<"mysql: missing identifier field", field>>
ErrSimpleIdentifier == <<"mysql: simple identifier requires exactly one identifier field">>

(***************************************************************************)
(* The record of the most recent call.                                     *)
(*   op        the method called                                           *)
(*   err       the error returned (Nil for success)                        *)
(*   result    the value returned next to the error                        *)
(*   stmts     the statements the call sent to the backend, in order       *)
(*   pool      the pool handle the call invoked a method on, or NoHandle   *)
(*   operation the descriptor passed in                                    *)
(*   input     the objects / identifiers / parameters passed in            *)
(*   objects   the caller's objects when the call returns                  *)
(*   order     the order in which the parameter map was iterated           *)
(*   args      the argument list built by buildQuery                       *)
(*   counted   whether the result of an Execute could report its count     *)
(***************************************************************************)
Blank ==
    [op |-> "none", err |-> Nil, result |-> <<>>, stmts |-> <<>>,
     pool |-> NoHandle, operation |-> <<>>, input |-> <<>>, objects |-> <<>>,
     order |-> <<>>, args |-> <<>>, counted |-> TRUE]

(***************************************************************************)
(* Configuration extraction.  A configuration value carries its dynamic    *)
(* type, as a Go interface{} does: [t |-> "string" | "int" | "float", v].  *)
(* The value of a float is the pair of its integer part and its fraction   *)
(* (in thousandths); int(val) keeps the integer part.                      *)
(***************************************************************************)
HasType(config, key, t) == key \in DOMAIN config /\ config[key].t = t

getStringConfig(config, key, defaultValue) ==
    IF HasType(config, key, "string") THEN config[key].v ELSE defaultValue

getIntConfig(config, key, defaultValue) ==
    IF HasType(config, key, "int") THEN config[key].v
    ELSE IF HasType(config, key, "float") THEN config[key].v[1]
    ELSE defaultValue

ConfigHost == "host"
ConfigPort == "port"
ConfigUser == "user"
ConfigPassword == "password"
ConfigDatabase == "database"
ConfigSSL == "ssl"
ConfigMaxConn == "max_connections"
ConfigMaxIdle == "max_idle"
ConfigConnAge == "conn_max_age_seconds"

DefaultPort == 3306
DefaultMaxConn == 10
DefaultMaxIdle == 5
DefaultConnMaxAge == 3600

(* The DSN is the tuple of the values fmt.Sprintf formats into it. *)
BuildDSN(config) ==
    <<getStringConfig(config, ConfigUser, "root"),
      getStringConfig(config, ConfigPassword, ""),
      getStringConfig(config, ConfigHost, "localhost"),
      getIntConfig(config, ConfigPort, DefaultPort),
      getStringConfig(config, ConfigDatabase, ""),
      getStringConfig(config, ConfigSSL, "false")>>

(***************************************************************************)
(* database/sql as the adapter uses it.  sql.Open parses the DSN and       *)
(* creates the pool without connecting; the driver rejects a DSN whose tls *)
(* parameter names no known mode.  DB.Close releases the pool; on a pool   *)
(* that is already closed it returns nil and does nothing.  `released`     *)
(* counts the releases actually performed on a pool.                       *)
(***************************************************************************)
TLSModes == {"false", "true", "skip-verify", "preferred"}

sqlOpenFails(d) == d[6] \notin TLSModes

NewPool(mc, mi) == [open |-> TRUE, released |-> 0, maxOpen |-> mc, maxIdle |-> mi]

dbClose(ps, h) ==
    IF ps[h].open
    THEN [ps EXCEPT ![h].open = FALSE, ![h].released = ps[h].released + 1]
    ELSE ps

(* PingContext succeeds when the host is the database host and it answers. *)
pingFails(d, reachable) == ~(d[3] = "localhost" /\ reachable)

(***************************************************************************)
(* NewMySQLAdapter and the empty database.                                 *)
(***************************************************************************)
Init ==
    /\ db = NoHandle
    /\ dsn = <<>>
    /\ maxConn = DefaultMaxConn
    /\ maxIdle = DefaultMaxIdle
    /\ connMaxAge = DefaultConnMaxAge
    /\ pools = <<>>
    /\ table = <<>>
    /\ nextId = 1
    /\ last = Blank

(***************************************************************************)
(* A Connect that stores the handle before the ping.                       *)
(***************************************************************************)
ConnectStoresBeforePing(config, reachable) ==
    LET mc == IF HasType(config, ConfigMaxConn, "int") THEN config[ConfigMaxConn].v ELSE maxConn
        mi == IF HasType(config, ConfigMaxIdle, "int") THEN config[ConfigMaxIdle].v ELSE maxIdle
        ca == IF HasType(config, ConfigConnAge, "int") THEN config[ConfigConnAge].v ELSE connMaxAge
        d  == BuildDSN(config)
        h  == Len(pools) + 1
        opened == Append(pools, NewPool(mc, mi))
    IN  /\ Len(pools) < MaxPools
        /\ maxConn' = mc
        /\ maxIdle' = mi
        /\ connMaxAge' = ca
        /\ dsn' = d
        /\ IF sqlOpenFails(d)
           THEN /\ pools' = pools
                /\ db' = db
                /\ last' = [Blank EXCEPT !.op = "Connect", !.err = ErrOpen, !.input = config]
           ELSE IF pingFails(d, reachable)
           THEN /\ pools' = dbClose(opened, h)
                /\ db' = h
                /\ last' = [Blank EXCEPT !.op = "Connect", !.err = ErrPing,
                                         !.input = config, !.pool = h]
           ELSE /\ pools' = opened
                /\ db' = h
                /\ last' = [Blank EXCEPT !.op = "Connect", !.input = config, !.pool = h]
        /\ UNCHANGED <<table, nextId>>

(***************************************************************************)
(* Connect(ctx, config).  `reachable` is whether the database answers the  *)
(* ping within the context's deadline.                                     *)
(***************************************************************************)
Connect(config, reachable) ==
    LET mc == IF HasType(config, ConfigMaxConn, "int") THEN config[ConfigMaxConn].v ELSE maxConn
        mi == IF HasType(config, ConfigMaxIdle, "int") THEN config[ConfigMaxIdle].v ELSE maxIdle
        ca == IF HasType(config, ConfigConnAge, "int") THEN config[ConfigConnAge].v ELSE connMaxAge
        d  == BuildDSN(config)
        h  == Len(pools) + 1
        opened == Append(pools, NewPool(mc, mi))
    IN  /\ Len(pools) < MaxPools
        /\ maxConn' = mc
        /\ maxIdle' = mi
        /\ connMaxAge' = ca
        /\ dsn' = d
        /\ IF sqlOpenFails(d)
           THEN /\ pools' = pools
                /\ db' = db
                /\ last' = [Blank EXCEPT !.op = "Connect", !.err = ErrOpen, !.input = config]
           ELSE IF pingFails(d, reachable)
           THEN /\ pools' = dbClose(opened, h)
                /\ db' = db
                /\ last' = [Blank EXCEPT !.op = "Connect", !.err = ErrPing,
                                         !.input = config, !.pool = h]
           ELSE /\ pools' = opened
                /\ db' = h
                /\ last' = [Blank EXCEPT !.op = "Connect", !.input = config, !.pool = h]
        /\ UNCHANGED <<table, nextId>>

(***************************************************************************)
(* A Close that forgets the handle without releasing its pool.             *)
(***************************************************************************)
CloseWithoutRelease ==
    /\ pools' = pools
    /\ last' = [Blank EXCEPT !.op = "Close", !.pool = db,
                             !.result = IF db # NoHandle THEN <<~pools[db].open>> ELSE <<>>]
    /\ UNCHANGED <<adapterVars, table, nextId>>

(***************************************************************************)
(* Close().  `result` records whether the pool was already closed when     *)
(* Close was called.                                                       *)
(***************************************************************************)
Close ==
    /\ IF db # NoHandle
       THEN /\ pools' = dbClose(pools, db)
            /\ last' = [Blank EXCEPT !.op = "Close", !.pool = db,
                                     !.result = <<~pools[db].open>>]
       ELSE /\ pools' = pools
            /\ last' = [Blank EXCEPT !.op = "Close"]
    /\ UNCHANGED <<adapterVars, table, nextId>>

(***************************************************************************)
(* The backend: the `users` table of init.sql, as a sequence of rows in    *)
(* the order a full scan returns them.  id is the auto-increment primary   *)
(* key, name and email are NOT NULL without a default, email is UNIQUE and *)
(* version defaults to 1.                                                  *)
(***************************************************************************)
Null == 0
TableName == "users"
EmptyCursor == [columns |-> <<>>, rows |-> <<>>]
Columns == <<"id", "name", "email", "version">>
ColumnSet == {Columns[i] : i \in DOMAIN Columns}
ColumnDefault(c) == IF c = "version" THEN 1 ELSE Null
Required == {"name", "email"}
UniqueColumns == {"id", "email"}

Range(s) == {s[i] : i \in DOMAIN s}
NoDuplicates(s) == \A i, j \in DOMAIN s : s[i] = s[j] => i = j
PositionOf(s, x) == CHOOSE i \in DOMAIN s : s[i] = x
Max(a, b) == IF a >= b THEN a ELSE b
KeysUnique(rows) ==
    \A c \in UniqueColumns : NoDuplicates([i \in DOMAIN rows |-> rows[i][c]])

RECURSIVE SumLens(_)
SumLens(ss) == IF ss = <<>> THEN 0 ELSE Len(Head(ss)) + SumLens(Tail(ss))

RECURSIVE SelectSeq2(_, _, _)
(* the subsequence of s whose elements satisfy Keep, Keep(x) being x \in K *)
SelectSeq2(s, K, i) ==
    IF i > Len(s) THEN <<>>
    ELSE (IF s[i] \in K THEN <<s[i]>> ELSE <<>>) \o SelectSeq2(s, K, i + 1)

(***************************************************************************)
(* Statements built by the CRUD methods are kept in the structure their    *)
(* text is formatted from:                                                 *)
(*   INSERT INTO table (fields) VALUES valueSets     args                  *)
(*   UPDATE table SET set WHERE where                args                  *)
(*   DELETE FROM table WHERE where                   args                  *)
(* Every element of set and where stands for "<column> = ?"; every value   *)
(* set is its sequence of "?" markers.  Statements of Fetch and Execute    *)
(* are text: [verb |-> "TEXT", text, args].                                *)
(***************************************************************************)
InsertStmt(tbl, fields, valueSets, args) ==
    [verb |-> "INSERT", table |-> tbl, fields |-> fields,
     valueSets |-> valueSets, args |-> args]

UpdateStmt(tbl, setClauses, whereClauses, args) ==
    [verb |-> "UPDATE", table |-> tbl, set |-> setClauses,
     where |-> whereClauses, args |-> args]

DeleteStmt(tbl, whereClauses, args) ==
    [verb |-> "DELETE", table |-> tbl, where |-> whereClauses, args |-> args]

TextStmt(text, args) == [verb |-> "TEXT", text |-> text, args |-> args]

(* row r satisfies "c1 = ? AND c2 = ? ..." with the arguments vals *)
Matches(r, cols, vals) == \A i \in DOMAIN cols : r[cols[i]] = vals[i]

(***************************************************************************)
(* INSERT.  The statement is rejected when the table or a column is        *)
(* unknown, a column is named twice, a value set does not have one marker  *)
(* per column, the arguments do not match the markers, a required column   *)
(* gets no value, or a primary key or an email is duplicated; a rejected   *)
(* statement inserts nothing.  The reported insert  *)
(* id is the id of the first row inserted.                                 *)
(***************************************************************************)
RECURSIVE insertRows(_, _, _, _, _, _)
insertRows(rows, nid, fields, args, k, j) ==
    IF j > k THEN [rows |-> rows, nextId |-> nid]
    ELSE LET n == Len(fields)
             val(c) == args[(j - 1) * n + PositionOf(fields, c)]
             id == IF "id" \in Range(fields) THEN val("id") ELSE nid
             row == [c \in ColumnSet |->
                        IF c \in Range(fields) THEN val(c)
                        ELSE IF c = "id" THEN id ELSE ColumnDefault(c)]
         IN  insertRows(Append(rows, row), Max(nid, id + 1), fields, args, k, j + 1)

execInsert(tbl, nid, stmt) ==
    LET k == Len(stmt.valueSets)
        wellFormed ==
            /\ stmt.table = TableName
            /\ Range(stmt.fields) \subseteq ColumnSet
            /\ NoDuplicates(stmt.fields)
            /\ k >= 1
            /\ \A j \in 1..k : Len(stmt.valueSets[j]) = Len(stmt.fields)
            /\ Len(stmt.args) = SumLens(stmt.valueSets)
            /\ Required \subseteq Range(stmt.fields)
        ins == insertRows(tbl, nid, stmt.fields, stmt.args, k, 1)
    IN  IF wellFormed /\ KeysUnique(ins.rows)
        THEN [ok |-> TRUE, table |-> ins.rows, nextId |-> ins.nextId,
              lastInsertId |-> ins.rows[Len(tbl) + 1].id, rowsAffected |-> k,
              cursor |-> EmptyCursor]
        ELSE [ok |-> FALSE, table |-> tbl, nextId |-> nid,
              lastInsertId |-> 0, rowsAffected |-> 0, cursor |-> EmptyCursor]

(***************************************************************************)
(* UPDATE and DELETE.  An empty SET or WHERE list is a syntax error; an    *)
(* UPDATE that would duplicate a primary key or an email is rejected.  The *)
(* connection does not ask for found-rows semantics, so the affected-row   *)
(* count of an UPDATE is the number of rows whose values changed.          *)
(***************************************************************************)
execUpdate(tbl, nid, stmt) ==
    LET ns == Len(stmt.set)
        nw == Len(stmt.where)
        setVals == SubSeq(stmt.args, 1, ns)
        whereVals == SubSeq(stmt.args, ns + 1, ns + nw)
        wellFormed ==
            /\ stmt.table = TableName
            /\ ns >= 1 /\ nw >= 1
            /\ Range(stmt.set) \cup Range(stmt.where) \subseteq ColumnSet
            /\ NoDuplicates(stmt.set)
            /\ Len(stmt.args) = ns + nw
        upd(r) == [c \in ColumnSet |->
                      IF c \in Range(stmt.set) THEN setVals[PositionOf(stmt.set, c)]
                      ELSE r[c]]
        new == [i \in DOMAIN tbl |->
                   IF Matches(tbl[i], stmt.where, whereVals) THEN upd(tbl[i]) ELSE tbl[i]]
        changed == Cardinality({i \in DOMAIN tbl : new[i] # tbl[i]})
    IN  IF wellFormed /\ KeysUnique(new)
        THEN [ok |-> TRUE, table |-> new, nextId |-> nid,
              lastInsertId |-> 0, rowsAffected |-> changed, cursor |-> EmptyCursor]
        ELSE [ok |-> FALSE, table |-> tbl, nextId |-> nid,
              lastInsertId |-> 0, rowsAffected |-> 0, cursor |-> EmptyCursor]

execDelete(tbl, nid, stmt) ==
    LET nw == Len(stmt.where)
        wellFormed ==
            /\ stmt.table = TableName
            /\ nw >= 1
            /\ Range(stmt.where) \subseteq ColumnSet
            /\ Len(stmt.args) = nw
        keep == {r \in Range(tbl) : ~Matches(r, stmt.where, stmt.args)}
    IN  IF wellFormed
        THEN [ok |-> TRUE, table |-> SelectSeq2(tbl, keep, 1), nextId |-> nid,
              lastInsertId |-> 0,
              rowsAffected |-> Len(tbl) - Len(SelectSeq2(tbl, keep, 1)),
              cursor |-> EmptyCursor]
        ELSE [ok |-> FALSE, table |-> tbl, nextId |-> nid,
              lastInsertId |-> 0, rowsAffected |-> 0, cursor |-> EmptyCursor]

(***************************************************************************)
(* Text statements the backend understands; any other text is a syntax     *)
(* error, and so is a text whose markers do not match the arguments.  A    *)
(* row-producing statement returns a cursor: the column names and the rows *)
(* as value tuples.  A mutation run as a query is executed and returns an  *)
(* empty cursor; a query run as a mutation reports no affected row.        *)
(***************************************************************************)
SelectAllText == <<"SELECT * FROM users">>
SelectByIdText == <<"SELECT * FROM users WHERE id = ", "?">>
DeleteByIdText == <<"DELETE FROM users WHERE id = ", "?">>
SelectByIdTemplate == <<"SELECT * FROM users WHERE id = ", "{", "id", "}">>
DeleteByIdTemplate == <<"DELETE FROM users WHERE id = ", "{", "id", "}">>

CursorOf(rows) ==
    [columns |-> Columns,
     rows |-> [i \in DOMAIN rows |-> [j \in DOMAIN Columns |-> rows[i][Columns[j]]]]]

execText(tbl, nid, stmt) ==
    LET failed == [ok |-> FALSE, table |-> tbl, nextId |-> nid,
                   lastInsertId |-> 0, rowsAffected |-> 0, cursor |-> EmptyCursor]
    IN  IF stmt.text = SelectAllText /\ stmt.args = <<>>
        THEN [failed EXCEPT !.ok = TRUE, !.cursor = CursorOf(tbl)]
        ELSE IF stmt.text = SelectByIdText /\ Len(stmt.args) = 1
        THEN [failed EXCEPT !.ok = TRUE,
                !.cursor = CursorOf(SelectSeq2(tbl, {r \in Range(tbl) : r.id = stmt.args[1]}, 1))]
        ELSE IF stmt.text = DeleteByIdText /\ Len(stmt.args) = 1
        THEN [execDelete(tbl, nid, DeleteStmt(TableName, <<"id">>, stmt.args))
                EXCEPT !.cursor = EmptyCursor]
        ELSE failed

(***************************************************************************)
(* A statement handed to the pool.  A closed pool fails every call with    *)
(* "sql: database is closed" and nothing reaches the server.  `be` is the  *)
(* server state [table, nextId].                                           *)
(***************************************************************************)
poolExec(open, be, stmt) ==
    IF ~open
    THEN [ok |-> FALSE, table |-> be.table, nextId |-> be.nextId,
          lastInsertId |-> 0, rowsAffected |-> 0, cursor |-> EmptyCursor]
    ELSE IF stmt.verb = "INSERT" THEN execInsert(be.table, be.nextId, stmt)
    ELSE IF stmt.verb = "UPDATE" THEN execUpdate(be.table, be.nextId, stmt)
    ELSE IF stmt.verb = "DELETE" THEN execDelete(be.table, be.nextId, stmt)
    ELSE execText(be.table, be.nextId, stmt)

BackendOf(r) == [table |-> r.table, nextId |-> r.nextId]

(***************************************************************************)
(* Row materialisation (the scan loop of Fetch and executeQuery): every    *)
(* row becomes a map from column name to the value scanned at the column's *)
(* position; for a repeated column name the last position wins.            *)
(***************************************************************************)
LastPositionOf(s, x) ==
    CHOOSE i \in DOMAIN s : s[i] = x /\ \A j \in DOMAIN s : s[j] = x => j <= i

(* a scan loop whose value pointers all name one slot: every column of a   *)
(* row gets the value scanned last                                         *)
scanRowsSharedSlot(cursor) ==
    [i \in DOMAIN cursor.rows |->
        [col \in Range(cursor.columns) |-> cursor.rows[i][Len(cursor.columns)]]]

scanRows(cursor) ==
    [i \in DOMAIN cursor.rows |->
        [col \in Range(cursor.columns) |->
            cursor.rows[i][LastPositionOf(cursor.columns, col)]]]

(***************************************************************************)
(* Operation descriptors and objects.  A field mapping is a record         *)
(* [ObjectField, DataField].  An object passed by the caller is either a   *)
(* map [kind |-> "map", data |-> <function on the present fields>] or any  *)
(* other value [kind |-> "scalar", v |-> <value>].                         *)
(***************************************************************************)
Field(o, d) == [ObjectField |-> o, DataField |-> d]
MapObject(data) == [kind |-> "map", data |-> data]
Scalar(v) == [kind |-> "scalar", v |-> v]

DataFields(props) == [i \in DOMAIN props |-> props[i].DataField]
ObjectFields(props) == [i \in DOMAIN props |-> props[i].ObjectField]
ValuesOf(props, data) == [i \in DOMAIN props |-> data[props[i].ObjectField]]
Markers(props) == [i \in DOMAIN props |-> "?"]

isGenerated(op, prop) ==
    \E i \in DOMAIN op.Generated : op.Generated[i].DataField = prop.DataField

isIdentifier(op, prop) ==
    \E i \in DOMAIN op.Identifier : op.Identifier[i].DataField = prop.DataField

(* an INSERT column selection that forgets to skip the generated fields *)
insertPropsWithGenerated(op, data) ==
    SelectSeq(op.Properties, LAMBDA prop : prop.ObjectField \in DOMAIN data)

(* the properties an INSERT of `data` writes, in properties order *)
insertProps(op, data) ==
    SelectSeq(op.Properties,
              LAMBDA prop : ~isGenerated(op, prop) /\ prop.ObjectField \in DOMAIN data)

(* data[gen.ObjectField] = lastID for every generated field *)
setGenerated(op, data, lastID) ==
    [f \in DOMAIN data \cup Range(ObjectFields(op.Generated)) |->
        IF f \in Range(ObjectFields(op.Generated)) THEN lastID ELSE data[f]]

(***************************************************************************)
(* singleInsert.  The result is the error, the server state, the           *)
(* statements handed to the pool and the object as the call leaves it.     *)
(***************************************************************************)
singleInsert(open, be, op, obj) ==
    IF obj.kind # "map"
    THEN [err |-> ErrNotMap, be |-> be, stmts |-> <<>>, obj |-> obj]
    ELSE LET props == insertProps(op, obj.data)
             stmt == InsertStmt(op.Statement, DataFields(props), <<Markers(props)>>,
                                ValuesOf(props, obj.data))
             r == poolExec(open, be, stmt)
         IN  IF ~r.ok
             THEN [err |-> ErrInsert, be |-> be, stmts |-> <<stmt>>, obj |-> obj]
             ELSE IF Len(op.Generated) > 0
             THEN [err |-> Nil, be |-> BackendOf(r), stmts |-> <<stmt>>,
                   obj |-> MapObject(setGenerated(op, obj.data, r.lastInsertId))]
             ELSE [err |-> Nil, be |-> BackendOf(r), stmts |-> <<stmt>>, obj |-> obj]

(***************************************************************************)
(* bulkInsert: the column list comes from the first object, the value sets *)
(* from each object's own present fields.                                  *)
(***************************************************************************)
RECURSIVE bulkValueSets(_, _, _)
bulkValueSets(op, objects, i) ==
    IF i > Len(objects) THEN [ok |-> TRUE, valueSets |-> <<>>, values |-> <<>>]
    ELSE IF objects[i].kind # "map"
    THEN [ok |-> FALSE, valueSets |-> <<>>, values |-> <<>>]
    ELSE LET props == insertProps(op, objects[i].data)
             rest == bulkValueSets(op, objects, i + 1)
         IN  [ok |-> rest.ok,
              valueSets |-> <<Markers(props)>> \o rest.valueSets,
              values |-> ValuesOf(props, objects[i].data) \o rest.values]

(* a bulkInsert that lists every non-generated property as a column,      *)
(* whether or not the first object has it                                  *)
bulkInsertAllColumns(open, be, op, objects) ==
    IF Len(objects) = 0
    THEN [err |-> Nil, be |-> be, stmts |-> <<>>, objects |-> objects]
    ELSE IF objects[1].kind # "map"
    THEN [err |-> ErrNotMap, be |-> be, stmts |-> <<>>, objects |-> objects]
    ELSE LET fields == DataFields(SelectSeq(op.Properties,
                                            LAMBDA prop : ~isGenerated(op, prop)))
             sets == bulkValueSets(op, objects, 1)
             stmt == InsertStmt(op.Statement, fields, sets.valueSets, sets.values)
             r == poolExec(open, be, stmt)
         IN  IF ~sets.ok
             THEN [err |-> ErrNotMap, be |-> be, stmts |-> <<>>, objects |-> objects]
             ELSE IF ~r.ok
             THEN [err |-> ErrBulkInsert, be |-> be, stmts |-> <<stmt>>, objects |-> objects]
             ELSE [err |-> Nil, be |-> BackendOf(r), stmts |-> <<stmt>>, objects |-> objects]

bulkInsert(open, be, op, objects) ==
    IF Len(objects) = 0
    THEN [err |-> Nil, be |-> be, stmts |-> <<>>, objects |-> objects]
    ELSE IF objects[1].kind # "map"
    THEN [err |-> ErrNotMap, be |-> be, stmts |-> <<>>, objects |-> objects]
    ELSE LET fields == DataFields(insertProps(op, objects[1].data))
             sets == bulkValueSets(op, objects, 1)
             stmt == InsertStmt(op.Statement, fields, sets.valueSets, sets.values)
             r == poolExec(open, be, stmt)
         IN  IF ~sets.ok
             THEN [err |-> ErrNotMap, be |-> be, stmts |-> <<>>, objects |-> objects]
             ELSE IF ~r.ok
             THEN [err |-> ErrBulkInsert, be |-> be, stmts |-> <<stmt>>, objects |-> objects]
             ELSE [err |-> Nil, be |-> BackendOf(r), stmts |-> <<stmt>>, objects |-> objects]

(***************************************************************************)
(* singleUpdate and singleDelete.                                          *)
(***************************************************************************)
present(props, data) ==
    SelectSeq(props, LAMBDA prop : prop.ObjectField \in DOMAIN data)

missing(props, data) ==
    SelectSeq(props, LAMBDA prop : prop.ObjectField \notin DOMAIN data)

(* a SET selection that forgets to skip the identifier fields *)
updatePropsWithIdentifier(op, data) ==
    SelectSeq(op.Properties, LAMBDA prop : prop.ObjectField \in DOMAIN data)

(* the properties an UPDATE of `data` sets, in properties order *)
updateProps(op, data) ==
    SelectSeq(op.Properties,
              LAMBDA prop : ~isIdentifier(op, prop) /\ prop.ObjectField \in DOMAIN data)

(* a singleUpdate that treats a missing identifier field as it treats a    *)
(* missing condition field: it leaves it out of the WHERE clause           *)
singleUpdatePartialKey(open, be, op, obj) ==
    IF obj.kind # "map"
    THEN [err |-> ErrNotMap, be |-> be, stmts |-> <<>>, obj |-> obj]
    ELSE LET setProps == updateProps(op, obj.data)
             ids == present(op.Identifier, obj.data)
             conds == present(op.Condition, obj.data)
             stmt == UpdateStmt(op.Statement, DataFields(setProps),
                                DataFields(ids) \o DataFields(conds),
                                ValuesOf(setProps, obj.data)
                                  \o ValuesOf(ids, obj.data)
                                  \o ValuesOf(conds, obj.data))
             r == poolExec(open, be, stmt)
         IN  IF ~r.ok
             THEN [err |-> ErrUpdate, be |-> be, stmts |-> <<stmt>>, obj |-> obj]
             ELSE IF r.rowsAffected = 0
             THEN [err |-> ErrNotFound, be |-> BackendOf(r), stmts |-> <<stmt>>, obj |-> obj]
             ELSE [err |-> Nil, be |-> BackendOf(r), stmts |-> <<stmt>>, obj |-> obj]

singleUpdate(open, be, op, obj) ==
    IF obj.kind # "map"
    THEN [err |-> ErrNotMap, be |-> be, stmts |-> <<>>, obj |-> obj]
    ELSE IF missing(op.Identifier, obj.data) # <<>>
    THEN [err |-> ErrMissingIdentifier(missing(op.Identifier, obj.data)[1].ObjectField),
          be |-> be, stmts |-> <<>>, obj |-> obj]
    ELSE LET setProps == updateProps(op, obj.data)
             conds == present(op.Condition, obj.data)
             stmt == UpdateStmt(op.Statement, DataFields(setProps),
                                DataFields(op.Identifier) \o DataFields(conds),
                                ValuesOf(setProps, obj.data)
                                  \o ValuesOf(op.Identifier, obj.data)
                                  \o ValuesOf(conds, obj.data))
             r == poolExec(open, be, stmt)
         IN  IF ~r.ok
             THEN [err |-> ErrUpdate, be |-> be, stmts |-> <<stmt>>, obj |-> obj]
             ELSE IF r.rowsAffected = 0
             THEN [err |-> ErrNotFound, be |-> BackendOf(r), stmts |-> <<stmt>>, obj |-> obj]
             ELSE [err |-> Nil, be |-> BackendOf(r), stmts |-> <<stmt>>, obj |-> obj]

(* a singleDelete that returns nil when no row was affected *)
singleDeleteIgnoringCount(open, be, op, identifier) ==
    IF identifier.kind = "map" /\ missing(op.Identifier, identifier.data) # <<>>
    THEN [err |-> ErrMissingIdentifier(missing(op.Identifier, identifier.data)[1].ObjectField),
          be |-> be, stmts |-> <<>>, obj |-> identifier]
    ELSE IF identifier.kind # "map" /\ Len(op.Identifier) # 1
    THEN [err |-> ErrSimpleIdentifier, be |-> be, stmts |-> <<>>, obj |-> identifier]
    ELSE LET stmt == IF identifier.kind = "map"
                     THEN DeleteStmt(op.Statement, DataFields(op.Identifier),
                                     ValuesOf(op.Identifier, identifier.data))
                     ELSE DeleteStmt(op.Statement, <<op.Identifier[1].DataField>>,
                                     <<identifier.v>>)
             r == poolExec(open, be, stmt)
         IN  IF ~r.ok
             THEN [err |-> ErrDelete, be |-> be, stmts |-> <<stmt>>, obj |-> identifier]
             ELSE [err |-> Nil, be |-> BackendOf(r), stmts |-> <<stmt>>, obj |-> identifier]

(* a singleDelete whose scalar branch only requires some identifier field  *)
(* and deletes by the first one                                            *)
singleDeleteByFirstField(open, be, op, identifier) ==
    IF identifier.kind = "map" /\ missing(op.Identifier, identifier.data) # <<>>
    THEN [err |-> ErrMissingIdentifier(missing(op.Identifier, identifier.data)[1].ObjectField),
          be |-> be, stmts |-> <<>>, obj |-> identifier]
    ELSE IF identifier.kind # "map" /\ Len(op.Identifier) = 0
    THEN [err |-> ErrSimpleIdentifier, be |-> be, stmts |-> <<>>, obj |-> identifier]
    ELSE LET stmt == IF identifier.kind = "map"
                     THEN DeleteStmt(op.Statement, DataFields(op.Identifier),
                                     ValuesOf(op.Identifier, identifier.data))
                     ELSE DeleteStmt(op.Statement, <<op.Identifier[1].DataField>>,
                                     <<identifier.v>>)
             r == poolExec(open, be, stmt)
         IN  IF ~r.ok
             THEN [err |-> ErrDelete, be |-> be, stmts |-> <<stmt>>, obj |-> identifier]
             ELSE IF r.rowsAffected = 0
             THEN [err |-> ErrNotFound, be |-> BackendOf(r), stmts |-> <<stmt>>,
                   obj |-> identifier]
             ELSE [err |-> Nil, be |-> BackendOf(r), stmts |-> <<stmt>>, obj |-> identifier]

singleDelete(open, be, op, identifier) ==
    IF identifier.kind = "map" /\ missing(op.Identifier, identifier.data) # <<>>
    THEN [err |-> ErrMissingIdentifier(missing(op.Identifier, identifier.data)[1].ObjectField),
          be |-> be, stmts |-> <<>>, obj |-> identifier]
    ELSE IF identifier.kind # "map" /\ Len(op.Identifier) # 1
    THEN [err |-> ErrSimpleIdentifier, be |-> be, stmts |-> <<>>, obj |-> identifier]
    ELSE LET stmt == IF identifier.kind = "map"
                     THEN DeleteStmt(op.Statement, DataFields(op.Identifier),
                                     ValuesOf(op.Identifier, identifier.data))
                     ELSE DeleteStmt(op.Statement, <<op.Identifier[1].DataField>>,
                                     <<identifier.v>>)
             r == poolExec(open, be, stmt)
         IN  IF ~r.ok
             THEN [err |-> ErrDelete, be |-> be, stmts |-> <<stmt>>, obj |-> identifier]
             ELSE IF r.rowsAffected = 0
             THEN [err |-> ErrNotFound, be |-> BackendOf(r), stmts |-> <<stmt>>,
                   obj |-> identifier]
             ELSE [err |-> Nil, be |-> BackendOf(r), stmts |-> <<stmt>>, obj |-> identifier]

(***************************************************************************)
(* The loop of Insert, Update and Delete over the items: item i is handled *)
(* after item i-1 returned nil; the first error ends the loop.  `kind`     *)
(* selects the single-item function.                                       *)
(***************************************************************************)
single(kind, open, be, op, obj) ==
    IF kind = "Insert" THEN singleInsert(open, be, op, obj)
    ELSE IF kind = "Update" THEN singleUpdate(open, be, op, obj)
    ELSE singleDelete(open, be, op, obj)

(* a loop that remembers the first error and goes on with the later items *)
RECURSIVE forEachKeepsGoing(_, _, _, _, _, _)
forEachKeepsGoing(kind, open, be, op, objects, i) ==
    IF i > Len(objects)
    THEN [err |-> Nil, be |-> be, stmts |-> <<>>, objects |-> objects]
    ELSE LET r == single(kind, open, be, op, objects[i])
             rest == forEachKeepsGoing(kind, open, r.be, op,
                                       [objects EXCEPT ![i] = r.obj], i + 1)
         IN  [rest EXCEPT !.stmts = r.stmts \o rest.stmts,
                          !.err = IF r.err # Nil THEN r.err ELSE rest.err]

RECURSIVE forEach(_, _, _, _, _, _)
forEach(kind, open, be, op, objects, i) ==
    IF i > Len(objects)
    THEN [err |-> Nil, be |-> be, stmts |-> <<>>, objects |-> objects]
    ELSE LET r == single(kind, open, be, op, objects[i])
         IN  IF r.err # Nil
             THEN [err |-> r.err, be |-> r.be, stmts |-> r.stmts, objects |-> objects]
             ELSE LET rest == forEach(kind, open, r.be, op,
                                      [objects EXCEPT ![i] = r.obj], i + 1)
                  IN  [rest EXCEPT !.stmts = r.stmts \o rest.stmts]

(***************************************************************************)
(* The public methods as functions of the handle d (a.db), whether its     *)
(* pool is open, the server state and the arguments.  Each returns the     *)
(* error, the result value, the server state, the statements handed to the *)
(* pool and the caller's objects.                                          *)
(***************************************************************************)
NotConnectedOutcome(be, objects) ==
    [err |-> ErrNotConnected, result |-> <<>>, be |-> be, stmts |-> <<>>,
     objects |-> objects]

WithResult(r, result) ==
    [err |-> r.err, result |-> result, be |-> r.be, stmts |-> r.stmts,
     objects |-> r.objects]

(* an Insert that returns early on an empty list before looking at the handle *)
insertEmptyFirst(d, open, be, op, objects) ==
    IF Len(objects) = 0
    THEN [err |-> Nil, result |-> <<>>, be |-> be, stmts |-> <<>>, objects |-> objects]
    ELSE IF d = NoHandle THEN NotConnectedOutcome(be, objects)
    ELSE IF op.Bulk /\ Len(objects) > 1
    THEN WithResult(bulkInsert(open, be, op, objects), <<>>)
    ELSE WithResult(forEach("Insert", open, be, op, objects, 1), <<>>)

insert(d, open, be, op, objects) ==
    IF d = NoHandle THEN NotConnectedOutcome(be, objects)
    ELSE IF Len(objects) = 0
    THEN [err |-> Nil, result |-> <<>>, be |-> be, stmts |-> <<>>, objects |-> objects]
    ELSE IF op.Bulk /\ Len(objects) > 1
    THEN WithResult(bulkInsert(open, be, op, objects), <<>>)
    ELSE WithResult(forEach("Insert", open, be, op, objects, 1), <<>>)

update(d, open, be, op, objects) ==
    IF d = NoHandle THEN NotConnectedOutcome(be, objects)
    ELSE IF Len(objects) = 0
    THEN [err |-> Nil, result |-> <<>>, be |-> be, stmts |-> <<>>, objects |-> objects]
    ELSE WithResult(forEach("Update", open, be, op, objects, 1), <<>>)

delete(d, open, be, op, identifiers) ==
    IF d = NoHandle THEN NotConnectedOutcome(be, identifiers)
    ELSE IF Len(identifiers) = 0
    THEN [err |-> Nil, result |-> <<>>, be |-> be, stmts |-> <<>>, objects |-> identifiers]
    ELSE WithResult(forEach("Delete", open, be, op, identifiers, 1), <<>>)

(* PrepareContext: the server parses the text *)
KnownTexts == {SelectAllText, SelectByIdText, DeleteByIdText}
prepareFails(open, text) == ~open \/ text \notin KnownTexts

(* a Fetch that reports an empty result as not found whatever op.Multi is *)
fetchIgnoringMulti(d, open, be, op, params, order) ==
    IF d = NoHandle THEN NotConnectedOutcome(be, <<>>)
    ELSE LET built == buildQuery(op.Statement, params, order)
             stmt == TextStmt(built.query, built.args)
             r == poolExec(open, be, stmt)
             results == scanRows(r.cursor)
         IN  IF prepareFails(open, built.query)
             THEN [err |-> ErrPrepare, result |-> <<>>, be |-> be,
                   stmts |-> <<stmt>>, objects |-> <<>>]
             ELSE IF ~r.ok
             THEN [err |-> ErrQuery, result |-> <<>>, be |-> be,
                   stmts |-> <<stmt>>, objects |-> <<>>]
             ELSE IF Len(results) = 0
             THEN [err |-> ErrNotFound, result |-> <<>>, be |-> BackendOf(r),
                   stmts |-> <<stmt>>, objects |-> <<>>]
             ELSE [err |-> Nil, result |-> results, be |-> BackendOf(r),
                   stmts |-> <<stmt>>, objects |-> <<>>]

fetch(d, open, be, op, params, order) ==
    IF d = NoHandle THEN NotConnectedOutcome(be, <<>>)
    ELSE LET built == buildQuery(op.Statement, params, order)
             stmt == TextStmt(built.query, built.args)
             r == poolExec(open, be, stmt)
             results == scanRows(r.cursor)
         IN  IF prepareFails(open, built.query)
             THEN [err |-> ErrPrepare, result |-> <<>>, be |-> be,
                   stmts |-> <<stmt>>, objects |-> <<>>]
             ELSE IF ~r.ok
             THEN [err |-> ErrQuery, result |-> <<>>, be |-> be,
                   stmts |-> <<stmt>>, objects |-> <<>>]
             ELSE IF Len(results) = 0 /\ ~op.Multi
             THEN [err |-> ErrNotFound, result |-> <<>>, be |-> BackendOf(r),
                   stmts |-> <<stmt>>, objects |-> <<>>]
             ELSE [err |-> Nil, result |-> results, be |-> BackendOf(r),
                   stmts |-> <<stmt>>, objects |-> <<>>]

(***************************************************************************)
(* Execute.  action.Result is NoResult when the action declares no result  *)
(* mapping.  countKnown is whether RowsAffected reports a count; its error *)
(* is dropped and the count is then 0.                                     *)
(***************************************************************************)
NoResult == "nil"

executeQuery(open, be, stmt) ==
    LET r == poolExec(open, be, stmt)
    IN  IF ~r.ok
        THEN [err |-> ErrQuery, result |-> <<>>, be |-> be,
              stmts |-> <<stmt>>, objects |-> <<>>]
        ELSE [err |-> Nil, result |-> scanRows(r.cursor), be |-> BackendOf(r),
              stmts |-> <<stmt>>, objects |-> <<>>]

(* an Execute that decides from the text whether the statement returns rows *)
executeSniffingText(d, open, be, action, params, order, countKnown) ==
    IF d = NoHandle THEN NotConnectedOutcome(be, <<>>)
    ELSE LET built == buildQuery(action.Statement, params, order)
             stmt == TextStmt(built.query, built.args)
             r == poolExec(open, be, stmt)
         IN  IF built.query \in {SelectAllText, SelectByIdText}
             THEN executeQuery(open, be, stmt)
             ELSE IF ~r.ok
             THEN [err |-> ErrExecute, result |-> <<>>, be |-> be,
                   stmts |-> <<stmt>>, objects |-> <<>>]
             ELSE [err |-> Nil,
                   result |-> [rows_affected |-> IF countKnown THEN r.rowsAffected ELSE 0],
                   be |-> BackendOf(r), stmts |-> <<stmt>>, objects |-> <<>>]

execute(d, open, be, action, params, order, countKnown) ==
    IF d = NoHandle THEN NotConnectedOutcome(be, <<>>)
    ELSE LET built == buildQuery(action.Statement, params, order)
             stmt == TextStmt(built.query, built.args)
             r == poolExec(open, be, stmt)
         IN  IF action.Result # NoResult
             THEN executeQuery(open, be, stmt)
             ELSE IF ~r.ok
             THEN [err |-> ErrExecute, result |-> <<>>, be |-> be,
                   stmts |-> <<stmt>>, objects |-> <<>>]
             ELSE [err |-> Nil,
                   result |-> [rows_affected |-> IF countKnown THEN r.rowsAffected ELSE 0],
                   be |-> BackendOf(r), stmts |-> <<stmt>>, objects |-> <<>>]

(***************************************************************************)
(* The methods as actions on the adapter and the database.                 *)
(***************************************************************************)
Open == db # NoHandle /\ pools[db].open
Backend == [table |-> table, nextId |-> nextId]

Outcome(name, operation, input, order, r) ==
    [Blank EXCEPT !.op = name, !.err = r.err, !.result = r.result,
                  !.stmts = r.stmts,
                  !.pool = IF r.stmts # <<>> THEN db ELSE NoHandle,
                  !.operation = operation, !.input = input,
                  !.objects = r.objects, !.order = order]

(* a return that forgets the handle once it finds its pool closed *)
ReturnsDroppingClosedHandle(name, operation, input, order, r) ==
    /\ last' = Outcome(name, operation, input, order, r)
    /\ table' = r.be.table
    /\ nextId' = r.be.nextId
    /\ db' = IF db # NoHandle /\ ~pools[db].open THEN NoHandle ELSE db
    /\ UNCHANGED <<dsn, maxConn, maxIdle, connMaxAge, pools>>

Returns(name, operation, input, order, r) ==
    /\ last' = Outcome(name, operation, input, order, r)
    /\ table' = r.be.table
    /\ nextId' = r.be.nextId
    /\ UNCHANGED <<adapterVars, pools>>

Fetch(op, params, order) ==
    Returns("Fetch", op, params, order, fetch(db, Open, Backend, op, params, order))

Insert(op, objects) ==
    /\ Len(table) + Len(objects) <= MaxRows
    /\ Returns("Insert", op, objects, <<>>, insert(db, Open, Backend, op, objects))

Update(op, objects) ==
    Returns("Update", op, objects, <<>>, update(db, Open, Backend, op, objects))

Delete(op, identifiers) ==
    Returns("Delete", op, identifiers, <<>>, delete(db, Open, Backend, op, identifiers))

Execute(action, params, order, countKnown) ==
    LET r == execute(db, Open, Backend, action, params, order, countKnown)
    IN  /\ last' = [Outcome("Execute", action, params, order, r)
                       EXCEPT !.counted = countKnown]
        /\ table' = r.be.table
        /\ nextId' = r.be.nextId
        /\ UNCHANGED <<adapterVars, pools>>

(***************************************************************************)
(* A call of buildQuery on its own (it needs no connection): the caller    *)
(* has chosen the template and the parameters, the runtime the iteration   *)
(* order; the call computes the statement and the arguments.               *)
(***************************************************************************)
BuildQueryCall ==
    /\ last.op = "call buildQuery"
    /\ LET built == buildQuery(last.operation, last.input, last.order)
       IN  last' = [last EXCEPT !.op = "buildQuery",
                                !.result = built.query, !.args = built.args]
    /\ UNCHANGED <<adapterVars, pools, table, nextId>>

(***************************************************************************)
(* Specification of the statement builder: every template over Alphabet up *)
(* to MaxTemplateLen characters, every parameter map over ParamKeys, every *)
(* iteration order of the map.                                             *)
(***************************************************************************)
Alphabet == {"{", "}", "a", "b", "?"}
ParamKeys == {<<"a">>, <<"b">>, <<"?">>}
ParamValue(key) == IF key = <<"a">> THEN 1 ELSE IF key = <<"b">> THEN 2 ELSE 3

Templates == UNION {[1..n -> Alphabet] : n \in 0..MaxTemplateLen}
ParamMaps == {[k \in S |-> ParamValue(k)] : S \in SUBSET ParamKeys}

InitBuild ==
    /\ db = NoHandle
    /\ dsn = <<>>
    /\ maxConn = DefaultMaxConn
    /\ maxIdle = DefaultMaxIdle
    /\ connMaxAge = DefaultConnMaxAge
    /\ pools = <<>>
    /\ table = <<>>
    /\ nextId = 1
    /\ \E query \in Templates, params \in ParamMaps :
          \E order \in Orders(DOMAIN params) :
             last = [Blank EXCEPT !.op = "call buildQuery", !.operation = query,
                                  !.input = params, !.order = order]

NextBuild == BuildQueryCall

SpecBuild == InitBuild /\ [][NextBuild]_vars

(***************************************************************************)
(* Inputs.  Configurations: the one of the README, the one of              *)
(* TestMySQLAdapter_ConnectInvalidConfig, one with an unknown TLS mode,    *)
(* and the empty map.                                                      *)
(***************************************************************************)
StringValue(v) == [t |-> "string", v |-> v]
IntValue(v) == [t |-> "int", v |-> v]
FloatValue(whole, thousandths) == [t |-> "float", v |-> <<whole, thousandths>>]

ConfigGood == [host |-> StringValue("localhost"), port |-> FloatValue(DefaultPort, 0),
               max_connections |-> IntValue(20)]
ConfigInvalidHost == [host |-> StringValue("invalid-host"), port |-> IntValue(DefaultPort),
                      user |-> StringValue("root"), password |-> StringValue(""),
                      database |-> StringValue("test")]
ConfigBadTLS == [host |-> StringValue("localhost"), port |-> FloatValue(DefaultPort, 900),
                 ssl |-> StringValue("bogus")]
ConfigEmpty == <<>>
Configs == {ConfigGood, ConfigInvalidHost, ConfigBadTLS, ConfigEmpty}

FID == Field("ID", "id")
FName == Field("Name", "name")
FEmail == Field("Email", "email")
FVersion == Field("Version", "version")

Operation(statement, multi, bulk, properties, identifier, condition, generated) ==
    [Statement |-> statement, Multi |-> multi, Bulk |-> bulk,
     Properties |-> properties, Identifier |-> identifier,
     Condition |-> condition, Generated |-> generated]

Action(statement, result) == [Statement |-> statement, Result |-> result]

(* The object at position i of a call: field f, when present, holds a      *)
(* value that tells the field and the position.                            *)
FieldValue(f, i) ==
    IF f = "ID" THEN i
    ELSE IF f = "Name" THEN 10 + i
    ELSE IF f = "Email" THEN 20 + i
    ELSE 1

ObjectAt(S, i) == MapObject([f \in S |-> FieldValue(f, i)])

IdParam(v) == [k \in {<<"id">>} |-> v]
NoParams == <<>>

(***************************************************************************)
(* Specification of the connection life cycle: any sequence of Connect and *)
(* Close, with every data method called on whatever state results.         *)
(***************************************************************************)
UsersOp == Operation(TableName, FALSE, FALSE, <<FID, FName, FEmail>>, <<FID>>, <<>>, <<FID>>)
FetchAllOp == Operation(SelectAllText, TRUE, FALSE, <<>>, <<>>, <<>>, <<>>)
LifecycleObjects ==
    {<<>>, <<ObjectAt({"Name", "Email"}, 1)>>, <<ObjectAt({"ID", "Name"}, 1)>>}
LifecycleIdentifiers == {<<>>, <<Scalar(1)>>}
LifecycleActions == {Action(SelectAllText, "rows"), Action(DeleteByIdTemplate, NoResult)}
LifecycleParams == {NoParams, IdParam(1)}

NextLifecycle ==
    \/ \E config \in Configs, reachable \in BOOLEAN : Connect(config, reachable)
    \/ Close
    \/ \E params \in LifecycleParams : \E order \in Orders(DOMAIN params) :
          Fetch(FetchAllOp, params, order)
    \/ \E objects \in LifecycleObjects : Insert(UsersOp, objects)
    \/ \E objects \in LifecycleObjects : Update(UsersOp, objects)
    \/ \E identifiers \in LifecycleIdentifiers : Delete(UsersOp, identifiers)
    \/ \E action \in LifecycleActions, params \in LifecycleParams :
          \E order \in Orders(DOMAIN params) : Execute(action, params, order, TRUE)

SpecLifecycle == Init /\ [][NextLifecycle]_vars

(***************************************************************************)
(* Specification of Insert and Fetch on an adapter connected once.         *)
(***************************************************************************)
PresentSets == {{"Name"}, {"Name", "Email"}, {"ID", "Name", "Email"}}
ItemsAt(i) == {ObjectAt(S, i) : S \in PresentSets} \cup {Scalar(i)}
Items == UNION {ItemsAt(i) : i \in 1..MaxObjects}
ObjectLists ==
    UNION {{l \in [1..n -> Items] : \A i \in 1..n : l[i] \in ItemsAt(i)} : n \in 0..MaxObjects}

InsertOps ==
    {Operation(TableName, FALSE, bulk, properties, <<FID>>, <<>>, generated) :
        bulk \in BOOLEAN,
        properties \in {<<FID, FName, FEmail>>, <<FEmail, FName>>},
        generated \in {<<>>, <<FID>>}}

FetchOps ==
    {Operation(statement, multi, FALSE, <<>>, <<>>, <<>>, <<>>) :
        statement \in {SelectAllText, SelectByIdTemplate}, multi \in BOOLEAN}

FetchParams == {NoParams} \cup {IdParam(v) : v \in 1..MaxRows}

NextData ==
    \/ db = NoHandle /\ Connect(ConfigGood, TRUE)
    \/ \E op \in InsertOps, objects \in ObjectLists : Insert(op, objects)
    \/ \E op \in FetchOps, params \in FetchParams :
          \E order \in Orders(DOMAIN params) : Fetch(op, params, order)

SpecData == Init /\ [][NextData]_vars

(***************************************************************************)
(* Specification of Update and Delete of one item (with the Inserts that   *)
(* fill the table) on an adapter connected once.  Row n is inserted with the name   *)
(* 10 + n and the email 20 + n and gets the id n.  An update object names  *)
(* the row v by its id and its email, carries the new name 30 and the      *)
(* version ver it expects; rows have the version 1.                        *)
(***************************************************************************)
SeedOp == Operation(TableName, FALSE, FALSE, <<FID, FName, FEmail>>, <<FID>>, <<>>, <<FID>>)
SeedObject(n) == ObjectAt({"Name", "Email"}, n)
SeedLists ==
    {<<SeedObject(nextId)>>, <<SeedObject(nextId), SeedObject(nextId + 1)>>,
     <<SeedObject(nextId), Scalar(0)>>}

UpdateOps ==
    {Operation(TableName, FALSE, FALSE, <<FID, FName, FEmail>>, <<FID>>, <<>>, <<>>),
     Operation(TableName, FALSE, FALSE, <<FEmail, FName, FVersion, FID>>,
               <<FID, FEmail>>, <<FVersion>>, <<>>),
     Operation(TableName, FALSE, FALSE, <<FName>>, <<>>, <<FVersion>>, <<>>)}

UpdateObject(v, S, ver) ==
    MapObject([f \in S |-> IF f = "ID" THEN v
                           ELSE IF f = "Name" THEN 30
                           ELSE IF f = "Email" THEN 20 + v
                           ELSE ver])

UpdateSets == {{"ID"}, {"Name"}, {"ID", "Name"},
               {"ID", "Name", "Email"}, {"ID", "Name", "Email", "Version"}}

UpdateItems ==
    {UpdateObject(v, S, ver) : v \in 1..MaxRows, S \in UpdateSets, ver \in {1, 2}}
      \cup {Scalar(1)}

UpdateLists == {<<>>} \cup {<<item>> : item \in UpdateItems}

DeleteOps ==
    {Operation(TableName, FALSE, FALSE, <<FID, FName, FEmail>>, identifier, <<>>, <<>>) :
        identifier \in {<<FID>>, <<>>, <<FID, FEmail>>}}

DeleteKey(v, S) == MapObject([f \in S |-> IF f = "ID" THEN v ELSE 20 + v])

DeleteItems ==
    {DeleteKey(v, S) : v \in 1..MaxRows, S \in SUBSET {"ID", "Email"}}
      \cup {Scalar(v) : v \in 1..MaxRows}

DeleteLists == {<<>>} \cup {<<item>> : item \in DeleteItems}

NextMutate ==
    \/ db = NoHandle /\ Connect(ConfigGood, TRUE)
    \/ \E objects \in SeedLists :
          /\ nextId + Len(objects) - 1 <= MaxRows
          /\ Insert(SeedOp, objects)
    \/ \E op \in UpdateOps, objects \in UpdateLists : Update(op, objects)
    \/ \E op \in DeleteOps, identifiers \in DeleteLists : Delete(op, identifiers)

SpecMutate == Init /\ [][NextMutate]_vars

(***************************************************************************)
(* Specification of the calls with several items: Insert (not bulk),       *)
(* Update and Delete of 2..MaxObjects items on an adapter connected once.  *)
(* The item at position i names the row i; at every position there is an   *)
(* item the method accepts and one it refuses.                             *)
(***************************************************************************)
UpdateItemsAt(i) == {UpdateObject(i, {"ID", "Name"}, 1), UpdateObject(i, {"Name"}, 1)}

DeleteItemsAt(i) == {Scalar(i), DeleteKey(i, {"Email"})}

LoopUpdateLists ==
    UNION {{l \in [1..n -> UNION {UpdateItemsAt(i) : i \in 1..n}] :
               \A i \in 1..n : l[i] \in UpdateItemsAt(i)} : n \in 2..MaxObjects}

LoopDeleteLists ==
    UNION {{l \in [1..n -> UNION {DeleteItemsAt(i) : i \in 1..n}] :
               \A i \in 1..n : l[i] \in DeleteItemsAt(i)} : n \in 2..MaxObjects}

NextLoop ==
    \/ db = NoHandle /\ Connect(ConfigGood, TRUE)
    \/ \E objects \in SeedLists :
          /\ nextId + Len(objects) - 1 <= MaxRows
          /\ Insert(SeedOp, objects)
    \/ \E op \in UpdateOps, objects \in LoopUpdateLists : Update(op, objects)
    \/ \E op \in DeleteOps, identifiers \in LoopDeleteLists : Delete(op, identifiers)

SpecLoop == Init /\ [][NextLoop]_vars

(***************************************************************************)
(* Specification of Execute (with the Inserts that fill the table) on an   *)
(* adapter connected once: row-producing and mutating statements, each     *)
(* with and without a result mapping, and results that can or cannot       *)
(* report their count.                                                     *)
(***************************************************************************)
ExecuteActions ==
    {Action(statement, result) :
        statement \in {SelectAllText, SelectByIdTemplate, DeleteByIdTemplate},
        result \in {NoResult, "rows"}}

ExecuteParams == {NoParams} \cup {IdParam(v) : v \in 1..MaxRows}

NextExecute ==
    \/ db = NoHandle /\ Connect(ConfigGood, TRUE)
    \/ /\ nextId <= MaxRows
       /\ Insert(SeedOp, <<SeedObject(nextId)>>)
    \/ \E action \in ExecuteActions, params \in ExecuteParams, countKnown \in BOOLEAN :
          \E order \in Orders(DOMAIN params) : Execute(action, params, order, countKnown)

SpecExecute == Init /\ [][NextExecute]_vars

(***************************************************************************)
(* Properties of the connection life cycle (SpecLifecycle).                *)
(***************************************************************************)
DataMethods == {"Fetch", "Insert", "Update", "Delete", "Execute"}
TakesObjects == {"Insert", "Update", "Delete"}

(* C1: on an adapter on which Connect never succeeded (a.db is nil), every *)
(* call of Fetch, Insert, Update, Delete or Execute, whatever its          *)
(* arguments, returns the not-connected error, hands no statement to any   *)
(* pool, and leaves the adapter, the database and the caller's objects as  *)
(* they were; this holds of every such call, so also of a repeated one.    *)
C1_NotConnectedFailsWithoutEffect ==
    [][(db = NoHandle /\ last'.op \in DataMethods) =>
          /\ last'.err = ErrNotConnected
          /\ last'.stmts = <<>>
          /\ last'.pool = NoHandle
          /\ last'.result = <<>>
          /\ (last'.op \in TakesObjects => last'.objects = last'.input)
          /\ UNCHANGED <<adapterVars, pools, table, nextId>>]_vars

(* an Insert of the empty list on a never-connected adapter has returned *)
C1_Witness ==
    /\ db = NoHandle
    /\ last.op = "Insert"
    /\ last.input = <<>>
    /\ last.err = ErrNotConnected

(* C2: once Connect has succeeded and Close has been called (the handle is *)
(* set and its pool is closed), every call of a data method returns the    *)
(* not-connected error and calls no method of the closed pool.             *)
C2_FailsFastAfterClose ==
    (last.op \in DataMethods /\ db # NoHandle /\ ~pools[db].open) =>
        (last.err = ErrNotConnected /\ last.pool = NoHandle)

(* C3: a Close on an adapter that never connected changes nothing and      *)
(* returns nil; a Close on a connected adapter leaves the adapter's pool   *)
(* closed with exactly one release performed on it, however many Close     *)
(* calls came before, and touches no other pool; no pool is ever released  *)
(* twice.                                                                  *)
C3_CloseReleasesOnce ==
    /\ [](\A h \in DOMAIN pools : pools[h].released <= 1)
    /\ [][last'.op = "Close" =>
            /\ last'.err = Nil
            /\ UNCHANGED adapterVars
            /\ IF db = NoHandle
               THEN pools' = pools
               ELSE /\ ~pools'[db].open
                    /\ pools'[db].released = 1
                    /\ \A h \in DOMAIN pools : h # db => pools'[h] = pools[h]]_vars

(* a second Close has returned: the pool was already closed when called *)
C3_Witness ==
    /\ last.op = "Close"
    /\ db # NoHandle
    /\ last.result = <<TRUE>>
    /\ pools[db].released = 1

(* C4: a Connect that returns an error leaves the handle field as it was,  *)
(* so unset on a fresh adapter; the pool it opened, if it got that far,    *)
(* is released and is not the pool the adapter references.                 *)
C4_FailedConnectLeavesNoHandle ==
    [][(last'.op = "Connect" /\ last'.err # Nil) =>
          /\ db' = db
          /\ Len(pools') <= Len(pools) + 1
          /\ \A h \in DOMAIN pools' \ DOMAIN pools :
                /\ ~pools'[h].open
                /\ pools'[h].released = 1
                /\ db' # h
          /\ \A h \in DOMAIN pools : pools'[h] = pools[h]]_vars

(* a Connect on a fresh adapter has failed at the ping and released its pool *)
C4_Witness ==
    /\ last.op = "Connect"
    /\ last.err = ErrPing
    /\ db = NoHandle
    /\ last.pool # NoHandle
    /\ ~pools[last.pool].open

(***************************************************************************)
(* Properties of the statement builder (SpecBuild).                        *)
(***************************************************************************)
Referenced(query, params) == {k \in DOMAIN params : Contains(query, Placeholder(k))}

PlaceholderStarts(query, params) ==
    UNION {Occurrences(query, Placeholder(k)) : k \in DOMAIN params}

KeyAt(query, params, i) ==
    CHOOSE k \in DOMAIN params : i \in Occurrences(query, Placeholder(k))

(* every parameter is referenced exactly once, and every brace of the      *)
(* template opens or closes one of these placeholders                      *)
EachPlaceholderOnce(query, params) ==
    /\ \A k \in DOMAIN params : Cardinality(Occurrences(query, Placeholder(k))) = 1
    /\ \A j \in DOMAIN query :
          /\ query[j] = "{" => j \in PlaceholderStarts(query, params)
          /\ query[j] = "}" =>
                \E i \in PlaceholderStarts(query, params) :
                    j = i + Len(KeyAt(query, params, i)) + 1

(* the template read left to right, each placeholder giving one marker and *)
(* one argument                                                            *)
RECURSIVE LeftToRight(_, _, _)
LeftToRight(query, params, i) ==
    IF i > Len(query) THEN [query |-> <<>>, args |-> <<>>]
    ELSE IF i \in PlaceholderStarts(query, params)
    THEN LET k == KeyAt(query, params, i)
             rest == LeftToRight(query, params, i + Len(k) + 2)
         IN  [query |-> Marker \o rest.query, args |-> <<params[k]>> \o rest.args]
    ELSE LET rest == LeftToRight(query, params, i + 1)
         IN  [query |-> <<query[i]>> \o rest.query, args |-> rest.args]

(* C5: for a template that references each of the n parameters exactly     *)
(* once, buildQuery returns the template with a marker in place of each    *)
(* placeholder and n arguments, the i-th being the value of the i-th       *)
(* placeholder from the left, whatever the iteration order of the map.     *)
C5_ArgsInTemplateOrder ==
    (last.op = "buildQuery" /\ EachPlaceholderOnce(last.operation, last.input)) =>
        /\ last.result = LeftToRight(last.operation, last.input, 1).query
        /\ Len(last.args) = Cardinality(DOMAIN last.input)
        /\ last.args = LeftToRight(last.operation, last.input, 1).args

Restrict(params, S) == [k \in S |-> params[k]]

(* C6: parameters whose placeholder does not occur in the template add no  *)
(* argument and change no text: the arguments are values of referenced     *)
(* parameters, at most one each, and the output is the output for the      *)
(* referenced parameters alone; with no parameter referenced the output is *)
(* the template and no argument.                                           *)
C6_UnreferencedParamsDropped ==
    last.op = "buildQuery" =>
        LET refd == Referenced(last.operation, last.input)
            only == buildQuery(last.operation, Restrict(last.input, refd),
                               SelectSeq(last.order, LAMBDA k : k \in refd))
        IN  /\ Len(last.args) <= Cardinality(refd)
            /\ \A i \in DOMAIN last.args : \E k \in refd : last.args[i] = last.input[k]
            /\ last.result = only.query
            /\ last.args = only.args
            /\ (refd = {} => last.result = last.operation /\ last.args = <<>>)

(***************************************************************************)
(* Properties of Fetch and Insert on a connected adapter (SpecData).       *)
(***************************************************************************)

(* the rows a SELECT of FetchOps yields on the table, in scan order *)
Yielded(stmt) ==
    IF stmt.text = SelectAllText THEN table
    ELSE SelectSeq(table, LAMBDA r : r.id = stmt.args[1])

(* C7: on a connected adapter, a Fetch whose query ran: with no row        *)
(* yielded it returns ErrNotFound when op.Multi is false and an empty      *)
(* sequence and no error when op.Multi is true; with rows yielded it       *)
(* returns all of them in cursor order and no error, whatever op.Multi.    *)
C7_FetchEmptyAndRows ==
    (last.op = "Fetch" /\ db # NoHandle /\ last.err \notin {ErrPrepare, ErrQuery}) =>
        LET rows == Yielded(last.stmts[1])
        IN  IF Len(rows) = 0
            THEN IF last.operation.Multi
                 THEN last.err = Nil /\ last.result = <<>>
                 ELSE last.err = ErrNotFound
            ELSE last.err = Nil /\ last.result = rows

(* a Fetch by an id that no row of a non-empty table has, with Multi true, *)
(* has returned an empty sequence and no error                             *)
C7_Witness ==
    /\ last.op = "Fetch"
    /\ db # NoHandle
    /\ last.operation.Multi
    /\ Len(table) > 0
    /\ last.err = Nil
    /\ last.result = <<>>

(* the properties not listed in generated (by data field) whose object     *)
(* field is present in data, in properties order                           *)
RECURSIVE ExpectedInsertProps(_, _, _)
ExpectedInsertProps(op, data, i) ==
    IF i > Len(op.Properties) THEN <<>>
    ELSE LET prop == op.Properties[i]
             listed == prop.DataField \in {op.Generated[g].DataField : g \in DOMAIN op.Generated}
         IN  (IF ~listed /\ prop.ObjectField \in DOMAIN data THEN <<prop>> ELSE <<>>)
             \o ExpectedInsertProps(op, data, i + 1)

NonBulkPath(l) == ~(l.operation.Bulk /\ Len(l.input) > 1)

(* C8: every statement of a non-bulk Insert is the INSERT for the object   *)
(* at the same position: its column list is the data fields of the         *)
(* properties not listed in generated and present in the object, in        *)
(* properties order, it has one value set with one marker per column, and  *)
(* its arguments are the object's values for those properties in the same  *)
(* order and number.                                                       *)
C8_SingleInsertColumns ==
    (last.op = "Insert" /\ db # NoHandle /\ NonBulkPath(last)) =>
        /\ Len(last.stmts) <= Len(last.input)
        /\ (last.err = Nil => Len(last.stmts) = Len(last.input))
        /\ \A j \in DOMAIN last.stmts :
              LET props == ExpectedInsertProps(last.operation, last.input[j].data, 1)
                  stmt == last.stmts[j]
              IN  /\ stmt.verb = "INSERT"
                  /\ stmt.table = last.operation.Statement
                  /\ stmt.fields = [c \in DOMAIN props |-> props[c].DataField]
                  /\ stmt.valueSets = <<[c \in DOMAIN props |-> "?"]>>
                  /\ Len(stmt.args) = Len(stmt.fields)
                  /\ stmt.args = [c \in DOMAIN props |->
                                    last.input[j].data[props[c].ObjectField]]

(* one object with ID, Name and Email has been inserted under properties   *)
(* ID, Name, Email with ID generated: the statement names the columns name *)
(* and email and not id                                                    *)
C8_Witness ==
    /\ last.op = "Insert"
    /\ last.err = Nil
    /\ Len(last.input) = 1
    /\ last.operation.Generated = <<FID>>
    /\ last.operation.Properties = <<FID, FName, FEmail>>
    /\ "ID" \in DOMAIN last.input[1].data
    /\ last.stmts[1].fields = <<"name", "email">>
    /\ last.stmts[1].args = <<last.input[1].data["Name"], last.input[1].data["Email"]>>

(* C9: after an Insert that returned nil under a non-empty generated list, *)
(* every object of the call holds, under each generated field's object     *)
(* field, the id of the row inserted for it.                               *)
C9_GeneratedWrittenBack ==
    (last.op = "Insert" /\ last.err = Nil /\ db # NoHandle
       /\ Len(last.operation.Generated) > 0 /\ Len(last.input) > 0) =>
        \A j \in DOMAIN last.input : \A g \in DOMAIN last.operation.Generated :
            LET field == last.operation.Generated[g].ObjectField
                row == table[Len(table) - Len(last.input) + j]
            IN  /\ last.objects[j].kind = "map"
                /\ field \in DOMAIN last.objects[j].data
                /\ last.objects[j].data[field] = row.id

SameFields(objects) ==
    \A j \in DOMAIN objects :
        /\ objects[j].kind = "map"
        /\ objects[1].kind = "map"
        /\ DOMAIN objects[j].data = DOMAIN objects[1].data

(* C10: an Insert with op.Bulk of k > 1 objects with the same present      *)
(* fields hands exactly one statement to the pool; its column list is the  *)
(* one of the first object, it has k value sets, each with one marker per  *)
(* column, and the arguments are the objects' values in input order,       *)
(* aligned to the columns; when it returns nil the table has k more rows,  *)
(* the j-th of them holding the j-th object's values.                      *)
C10_BulkInsertOneStatement ==
    [][(db # NoHandle /\ last'.op = "Insert" /\ last'.operation.Bulk
          /\ Len(last'.input) > 1 /\ SameFields(last'.input)) =>
          LET k == Len(last'.input)
              props == ExpectedInsertProps(last'.operation, last'.input[1].data, 1)
              n == Len(props)
              stmt == last'.stmts[1]
          IN  /\ Len(last'.stmts) = 1
              /\ stmt.verb = "INSERT"
              /\ stmt.fields = [c \in 1..n |-> props[c].DataField]
              /\ Len(stmt.valueSets) = k
              /\ \A j \in 1..k : stmt.valueSets[j] = [c \in 1..n |-> "?"]
              /\ Len(stmt.args) = k * n
              /\ \A j \in 1..k : \A c \in 1..n :
                    stmt.args[(j - 1) * n + c] = last'.input[j].data[props[c].ObjectField]
              /\ (last'.err = Nil =>
                    /\ Len(table') = Len(table) + k
                    /\ SubSeq(table', 1, Len(table)) = table
                    /\ \A j \in 1..k : \A c \in 1..n :
                          table'[Len(table) + j][props[c].DataField]
                             = last'.input[j].data[props[c].ObjectField])]_vars

(* a bulk Insert of two objects, both with Name and Email, has returned nil *)
C10_Witness ==
    /\ last.op = "Insert"
    /\ last.err = Nil
    /\ last.operation.Bulk
    /\ Len(last.input) = 2
    /\ SameFields(last.input)
    /\ DOMAIN last.input[1].data = {"Name", "Email"}
    /\ Len(last.stmts) = 1
    /\ Len(last.stmts[1].valueSets) = 2
    /\ Len(table) = 2

(***************************************************************************)
(* Properties of Update and Delete on a connected adapter (SpecMutate).    *)
(***************************************************************************)
DataFieldsOf(fields) == {fields[i].DataField : i \in DOMAIN fields}

(* the properties whose data field is no identifier's data field and whose *)
(* object field is present in data, in properties order                    *)
RECURSIVE ExpectedSetProps(_, _, _)
ExpectedSetProps(op, data, i) ==
    IF i > Len(op.Properties) THEN <<>>
    ELSE LET prop == op.Properties[i]
         IN  (IF prop.DataField \notin DataFieldsOf(op.Identifier)
                    /\ prop.ObjectField \in DOMAIN data
              THEN <<prop>> ELSE <<>>)
             \o ExpectedSetProps(op, data, i + 1)

(* the fields of `fields` whose object field is present in data, in order *)
RECURSIVE PresentFields(_, _, _)
PresentFields(fields, data, i) ==
    IF i > Len(fields) THEN <<>>
    ELSE (IF fields[i].ObjectField \in DOMAIN data THEN <<fields[i]>> ELSE <<>>)
         \o PresentFields(fields, data, i + 1)

(* the first field of `fields` whose object field is absent from data *)
FirstMissing(fields, data) ==
    LET absent == {i \in DOMAIN fields : fields[i].ObjectField \notin DOMAIN data}
    IN  fields[CHOOSE i \in absent : \A j \in absent : i <= j].ObjectField

LacksIdentifier(op, item) ==
    /\ item.kind = "map"
    /\ \E i \in DOMAIN op.Identifier : op.Identifier[i].ObjectField \notin DOMAIN item.data

(* C11: every statement of an Update is the UPDATE for the object at the   *)
(* same position: its SET list is the data fields of the properties that   *)
(* are no identifier field and are present in the object, in properties    *)
(* order; its WHERE list is every identifier field followed by the         *)
(* condition fields present in the object (absent ones are left out and    *)
(* raise no error); its arguments are the SET values, then the identifier  *)
(* values, then the condition values, one per marker; an Update that       *)
(* returns nil has issued one such statement per object.                   *)
C11_UpdateSetAndWhere ==
    (last.op = "Update" /\ db # NoHandle) =>
        /\ Len(last.stmts) <= Len(last.input)
        /\ (last.err = Nil => Len(last.stmts) = Len(last.input))
        /\ \A j \in DOMAIN last.stmts :
              LET op == last.operation
                  data == last.input[j].data
                  sets == ExpectedSetProps(op, data, 1)
                  conds == PresentFields(op.Condition, data, 1)
                  keys == op.Identifier \o conds
                  stmt == last.stmts[j]
              IN  /\ stmt.verb = "UPDATE"
                  /\ stmt.table = op.Statement
                  /\ stmt.set = [c \in DOMAIN sets |-> sets[c].DataField]
                  /\ stmt.where = [c \in DOMAIN keys |-> keys[c].DataField]
                  /\ Len(stmt.args) = Len(stmt.set) + Len(stmt.where)
                  /\ stmt.args = [c \in DOMAIN sets |-> data[sets[c].ObjectField]]
                                   \o [c \in DOMAIN keys |-> data[keys[c].ObjectField]]

(* an object with ID, Name, Email and Version has been updated under the   *)
(* properties Email, Name, Version, ID, the identifier (ID, Email) and the *)
(* condition Version: name and version are set; id, email and version are *)
(* the key                                                                 *)
C11_Witness ==
    /\ last.op = "Update"
    /\ last.err = Nil
    /\ Len(last.input) = 1
    /\ last.operation.Condition = <<FVersion>>
    /\ last.stmts[1].set = <<"name", "version">>
    /\ last.stmts[1].where = <<"id", "email", "version">>
    /\ last.stmts[1].args = <<30, 1, last.input[1].data["ID"],
                              last.input[1].data["Email"], 1>>
    /\ \E i \in DOMAIN table : table[i].name = 30

(* C12: in an Update or a Delete on a connected adapter, no statement is   *)
(* issued for a record that lacks an identifier field, nor for any item    *)
(* after it; such a record is never passed over (a call that returns nil   *)
(* had none); when it is the first item the call returns the error naming  *)
(* its first missing identifier field and the database is unchanged, and   *)
(* whenever that error is returned it names the first missing field of the *)
(* item after the last statement.                                          *)
C12_MissingIdentifierIsFatal ==
    [][(db # NoHandle /\ last'.op \in {"Update", "Delete"}) =>
          LET op == last'.operation
              items == last'.input
              n == Len(last'.stmts)
              bad == {j \in DOMAIN items : LacksIdentifier(op, items[j])}
          IN  /\ \A j \in bad : n < j
              /\ (last'.err = Nil => bad = {})
              /\ (1 \in bad =>
                    /\ last'.err = ErrMissingIdentifier(FirstMissing(op.Identifier, items[1].data))
                    /\ last'.stmts = <<>>
                    /\ table' = table /\ nextId' = nextId)
              /\ ((\E field \in {"ID", "Name", "Email", "Version"} :
                      last'.err = ErrMissingIdentifier(field)) =>
                    /\ n + 1 \in bad
                    /\ last'.err[2] = FirstMissing(op.Identifier, items[n + 1].data))]_vars

(* an Update of an object without ID under the identifier (ID, Email) has  *)
(* failed naming ID, with a non-empty table and no statement               *)
C12_Witness ==
    /\ last.op = "Update"
    /\ last.operation.Identifier = <<FID, FEmail>>
    /\ last.err = ErrMissingIdentifier("ID")
    /\ last.stmts = <<>>
    /\ Len(table) > 0

(* the arguments bound to the WHERE markers of an UPDATE or a DELETE *)
WhereArgs(stmt) ==
    IF stmt.verb = "UPDATE"
    THEN SubSeq(stmt.args, Len(stmt.set) + 1, Len(stmt.args))
    ELSE stmt.args

(* row satisfies every predicate "<column> = <argument>" of the WHERE *)
RowMatches(row, stmt) ==
    \A c \in DOMAIN stmt.where : row[stmt.where[c]] = WhereArgs(stmt)[c]

(* the statement is one the server executes: it has something to set (for  *)
(* an UPDATE) and at least one predicate                                   *)
Executable(stmt) ==
    /\ stmt.where # <<>>
    /\ stmt.verb = "UPDATE" => stmt.set # <<>>

C14_ScalarIdentifier ==
    [][(db # NoHandle /\ pools[db].open /\ last'.op = "Delete") =>
          LET op == last'.operation
              items == last'.input
              ByScalar(v) == [verb |-> "DELETE", table |-> op.Statement,
                              where |-> <<op.Identifier[1].DataField>>, args |-> <<v>>]
          IN  /\ \A j \in DOMAIN last'.stmts :
                    items[j].kind = "scalar" =>
                       /\ Len(op.Identifier) = 1
                       /\ last'.stmts[j] = ByScalar(items[j].v)
              /\ (Len(items) >= 1 /\ items[1].kind = "scalar") =>
                    IF Len(op.Identifier) # 1
                    THEN /\ last'.err = ErrSimpleIdentifier
                         /\ last'.stmts = <<>>
                         /\ table' = table
                    ELSE /\ Len(last'.stmts) >= 1
                         /\ (Len(items) = 1 =>
                               LET field == op.Identifier[1].DataField
                                   hit == {i \in DOMAIN table : table[i][field] = items[1].v}
                               IN  /\ table' = SelectSeq(table,
                                                  LAMBDA row : row[field] # items[1].v)
                                   /\ last'.err = IF hit = {} THEN ErrNotFound ELSE Nil)]_vars

(* a Delete of one scalar under the identifier ID has removed the row with *)
(* that id and left another row in the table                               *)
C14_Witness ==
    /\ last.op = "Delete"
    /\ last.err = Nil
    /\ Len(last.input) = 1
    /\ last.input[1].kind = "scalar"
    /\ last.operation.Identifier = <<FID>>
    /\ Len(table) >= 1
    /\ \A i \in DOMAIN table : table[i].id # last.input[1].v

(***************************************************************************)
(* Properties of the calls with several items (SpecLoop).                  *)
(***************************************************************************)

(* the statement the adapter is to issue for one item of a non-bulk call *)
ExpectedStatement(kind, op, item) ==
    IF kind = "Insert"
    THEN LET props == ExpectedInsertProps(op, item.data, 1)
         IN  [verb |-> "INSERT", table |-> op.Statement,
              fields |-> [c \in DOMAIN props |-> props[c].DataField],
              valueSets |-> <<[c \in DOMAIN props |-> "?"]>>,
              args |-> [c \in DOMAIN props |-> item.data[props[c].ObjectField]]]
    ELSE IF kind = "Update"
    THEN LET sets == ExpectedSetProps(op, item.data, 1)
             keys == op.Identifier \o PresentFields(op.Condition, item.data, 1)
         IN  [verb |-> "UPDATE", table |-> op.Statement,
              set |-> [c \in DOMAIN sets |-> sets[c].DataField],
              where |-> [c \in DOMAIN keys |-> keys[c].DataField],
              args |-> [c \in DOMAIN sets |-> item.data[sets[c].ObjectField]]
                         \o [c \in DOMAIN keys |-> item.data[keys[c].ObjectField]]]
    ELSE IF item.kind = "map"
    THEN [verb |-> "DELETE", table |-> op.Statement,
          where |-> [c \in DOMAIN op.Identifier |-> op.Identifier[c].DataField],
          args |-> [c \in DOMAIN op.Identifier |-> item.data[op.Identifier[c].ObjectField]]]
    ELSE [verb |-> "DELETE", table |-> op.Statement,
          where |-> <<op.Identifier[1].DataField>>, args |-> <<item.v>>]

(* the error an item is refused with before any statement, Nil if none *)
Refusal(kind, op, item) ==
    IF kind \in {"Insert", "Update"} /\ item.kind # "map" THEN ErrNotMap
    ELSE IF kind \in {"Update", "Delete"} /\ LacksIdentifier(op, item)
    THEN ErrMissingIdentifier(FirstMissing(op.Identifier, item.data))
    ELSE IF kind = "Delete" /\ item.kind # "map" /\ Len(op.Identifier) # 1
    THEN ErrSimpleIdentifier
    ELSE Nil

(* the server running the statements one after the other from the state    *)
(* be: the state reached and, for each statement, the error it ends with   *)
(* (a rejected statement, or an UPDATE or DELETE that affects no row)      *)
RECURSIVE Ran(_, _, _)
Ran(be, stmts, j) ==
    IF j > Len(stmts) THEN [be |-> be, errs |-> <<>>]
    ELSE LET r == poolExec(TRUE, be, stmts[j])
             e == IF ~r.ok
                  THEN (IF stmts[j].verb = "INSERT" THEN ErrInsert
                        ELSE IF stmts[j].verb = "UPDATE" THEN ErrUpdate ELSE ErrDelete)
                  ELSE IF stmts[j].verb # "INSERT" /\ r.rowsAffected = 0
                  THEN ErrNotFound ELSE Nil
             rest == Ran(BackendOf(r), stmts, j + 1)
         IN  [be |-> rest.be, errs |-> <<e>> \o rest.errs]

(* C15: in an Insert (not on the bulk path), Update or Delete on a         *)
(* connected adapter with an open pool, the statements issued are those of *)
(* the items 1..n in input order, one per item; every statement but the    *)
(* last ended without error before the next was issued; the database is    *)
(* left as running these n statements one after the other leaves it, so    *)
(* what the earlier items did stays; the call returns nil only when all    *)
(* items were run, and otherwise the error of the first item that failed   *)
(* (the error of statement n, or the refusal of item n + 1), with no       *)
(* statement for any later item.                                           *)
C15_InOrderFailFast ==
    [][(/\ db # NoHandle
        /\ pools[db].open
        /\ last'.op \in TakesObjects
        /\ NonBulkPath(last')) =>
          LET kind == last'.op
              op == last'.operation
              items == last'.input
              n == Len(last'.stmts)
              run == Ran(Backend, last'.stmts, 1)
          IN  /\ n <= Len(items)
              /\ \A j \in 1..n :
                    /\ Refusal(kind, op, items[j]) = Nil
                    /\ last'.stmts[j] = ExpectedStatement(kind, op, items[j])
              /\ \A j \in 1..(n - 1) : run.errs[j] = Nil
              /\ table' = run.be.table
              /\ nextId' = run.be.nextId
              /\ IF n >= 1 /\ run.errs[n] # Nil
                 THEN last'.err = run.errs[n]
                 ELSE IF n < Len(items)
                 THEN /\ last'.err = Refusal(kind, op, items[n + 1])
                      /\ last'.err # Nil
                 ELSE last'.err = Nil]_vars

(* an Update of two objects has changed the first one's row and failed at  *)
(* the second, which has no ID: one statement, the first row keeps its new *)
(* name                                                                    *)
C15_Witness ==
    /\ last.op = "Update"
    /\ Len(last.input) = 2
    /\ Len(last.stmts) = 1
    /\ last.err = ErrMissingIdentifier("ID")
    /\ \E i \in DOMAIN table :
          table[i].id = last.input[1].data["ID"] /\ table[i].name = 30

(* C19: every UPDATE and every DELETE handed to the pool has at least one  *)
(* predicate in its WHERE list, whatever the descriptor and the item.      *)
C19_WhereNeverEmpty ==
    \A j \in DOMAIN last.stmts :
        last.stmts[j].verb \in {"UPDATE", "DELETE"} => Len(last.stmts[j].where) >= 1

(***************************************************************************)
(* Properties of Execute on a connected adapter (SpecExecute).             *)
(***************************************************************************)

(* the rows the statement of an Execute yields on the table, in scan order *)
RowsOf(stmt) ==
    IF stmt.text = SelectAllText THEN table
    ELSE IF stmt.text = SelectByIdText
    THEN SelectSeq(table, LAMBDA row : row.id = stmt.args[1])
    ELSE <<>>

(* C16: an Execute on a connected adapter with an open pool hands one      *)
(* statement to the pool.  When action.Result is set, whatever the text,   *)
(* it runs as a query: the call fails with the query error or returns the  *)
(* sequence of the rows the statement yields, as records by column name.   *)
(* When action.Result is absent, whatever the text, it runs as a mutation: *)
(* the call fails with the execute error or returns the single record      *)
(* rows_affected = n, n being the number of rows the statement removed     *)
(* when the result reports its count and 0, still without error, when it   *)
(* does not.                                                               *)
C16_ExecuteModeFromResult ==
    [][(db # NoHandle /\ pools[db].open /\ last'.op = "Execute") =>
          /\ Len(last'.stmts) = 1
          /\ IF last'.operation.Result # NoResult
             THEN /\ last'.err \in {Nil, ErrQuery}
                  /\ (last'.err = Nil => last'.result = RowsOf(last'.stmts[1]))
             ELSE /\ last'.err \in {Nil, ErrExecute}
                  /\ (last'.err = Nil =>
                        last'.result =
                          [rows_affected |-> IF last'.counted
                                             THEN Len(table) - Len(table') ELSE 0])]_vars

(* a DELETE run without a result mapping has removed a row and returned    *)
(* rows_affected = 1                                                       *)
C16_Witness ==
    /\ last.op = "Execute"
    /\ last.err = Nil
    /\ last.operation = Action(DeleteByIdTemplate, NoResult)
    /\ last.counted
    /\ last.result = [rows_affected |-> 1]

(***************************************************************************)
(* Round trip of Insert and Fetch (SpecData).                              *)
(***************************************************************************)

C18_DataMethodsWriteNoField ==
    [][/\ (last'.op \in DataMethods => UNCHANGED <<adapterVars, pools>>)
       /\ (db' # db => last'.op = "Connect" /\ last'.err = Nil)]_vars

(* an Insert on a connected adapter has added a row; the settings are      *)
(* those the Connect stored                                                *)
C18_Witness ==
    /\ last.op = "Insert"
    /\ last.err = Nil
    /\ Len(last.stmts) = 1
    /\ db # NoHandle
    /\ pools[db].open
    /\ maxConn = 20
    /\ Len(table) >= 1

(* C20: at every moment the only pool that can be open is the one the      *)
(* adapter references, so at most one is open and a Connect that succeeds  *)
(* on a connected adapter leaves no earlier pool open; and once a Close    *)
(* has returned, every pool the adapter ever opened is released.           *)
C20_NoPoolLeftOpen ==
    /\ \A h \in DOMAIN pools : pools[h].open => h = db
    /\ last.op = "Close" => \A h \in DOMAIN pools : ~pools[h].open

====
